---- MODULE Spec2Model ----
(***************************************************************************)
(* The tool protocol handler (backend/mcp_protocol.py) and the session     *)
(* registry and endpoints that drive it (backend/main.py).                 *)
(*                                                                         *)
(* Python values are represented as follows.  A dict that is iterated      *)
(* (servers) is a sequence of its values in insertion order; a dict that   *)
(* is only indexed is a function.  An Optional value is the string "None"  *)
(* when it is an Optional[str], and a set with at most one element         *)
(* otherwise.  A tool schema is represented by its "name" entry, so a      *)
(* server's tools are a sequence of names.                                 *)
(***************************************************************************)
EXTENDS Naturals, Sequences, FiniteSets, TLC

(***************************************************************************)
(* Bounds of the model.                                                    *)
(***************************************************************************)
MaxClock == 1
MaxRegs == 1
MaxRegistryRegs == 3
MaxTurns == 2
MaxParts == 1
MaxSessionTurns == 1
MaxChainTurns == 1
MaxChainParts == 2
MaxEnds == 2
TicksPerSecond == 2

(***************************************************************************)
(* Input values.                                                           *)
(***************************************************************************)
None == "None"
Users == {"u1", "u2"}
Bots == {"b1"}
ArgValues == {"a1", "a2"}
CallTools == {"search_web", "lookup"}
ApprovalModes == {"always_ask", "auto_approve"}
BuiltinUrl == "builtin://custom"
HttpUrl == "https://ext"
Urls == {BuiltinUrl, HttpUrl}
ServerNames == {"perplexity_search", "custom"}
ToolLists == {<<>>, <<"search_web">>}
\* a server may also declare a tool whose name is empty
FetchedLists == ToolLists \cup {<<"">>}
ExternalOutcomes == {"ok", "status_error", "exception"}
LlmOutcomes == {"no_key", "error", "ok", "cont_error"}
Texts == {"", " ", "hi"}
SttOutcomes == {"no_key", "exception", "no_alternatives", "heard"}
TtsOutcomes == {"no_key", "exception", "ok"}
ConnIds == {"w1", "w2"}

\* str.startswith on the urls of the model
startswith_http(url) == url = HttpUrl
startswith_builtin(url) == url = BuiltinUrl

VARIABLES
    servers,            \* MCPProtocolHandler.servers, in insertion order
    pending_approvals,  \* MCPProtocolHandler.pending_approvals
    tool_registry,      \* MCPProtocolHandler.tool_registry
    voice_sessions,     \* main.voice_sessions
    active_websockets,  \* main.active_websockets
    conns,              \* the WebSocket connections and where their endpoint stands
    ending,             \* the end_voice_session requests past their checks
    conversations,      \* the conversations saved to the persistent store
    now,                \* the reading of datetime.now()
    registered,         \* history: server names, least recently registered first
    calls,              \* history: per call id, how often issued and resolved
    last,               \* history: the last operation, its inputs and its outcome
    nregs,              \* number of add_custom_server calls made
    nturns,             \* number of model turns made
    nends               \* number of end_voice_session requests made

handler_vars == <<servers, pending_approvals, tool_registry>>
session_vars == <<voice_sessions, active_websockets, conns, ending, conversations>>
vars == <<servers, pending_approvals, tool_registry, voice_sessions,
          active_websockets, conns, ending, conversations, now, registered,
          calls, last, nregs, nturns, nends>>
counters == <<nregs, nturns, nends>>

\* No handler is inside a blocking call.  The coroutines run on one event
\* loop: while one of them is in a call that does not await, none of the
\* others runs
Free == \A w \in DOMAIN conns : conns[w].state # "stt"

(***************************************************************************)
(* MCPServer and the default servers.                                      *)
(***************************************************************************)
MCPServer(name, url, enabled, approval_mode, tools) ==
    [name |-> name, url |-> url, enabled |-> enabled,
     approval_mode |-> approval_mode, tools |-> tools]

DefaultServers ==
    << MCPServer("google_calendar", "builtin://calendar", TRUE, "always_ask",
                 <<"add_calendar_event", "get_calendar_events">>),
       MCPServer("gmail", "builtin://gmail", TRUE, "always_ask",
                 <<"send_email", "read_emails">>),
       MCPServer("perplexity_search", "builtin://perplexity", TRUE, "always_ask",
                 <<"search_web">>),
       MCPServer("openweather", "builtin://weather", TRUE, "always_ask",
                 <<"get_weather", "get_weather_forecast">>) >>

BuiltinHandlers ==
    {"add_calendar_event", "get_calendar_events", "send_email", "read_emails",
     "search_web", "get_weather", "get_weather_forecast"}

(***************************************************************************)
(* Dict operations on the servers dict.                                    *)
(***************************************************************************)
Range(s) == {s[i] : i \in DOMAIN s}

HasKey(srvs, name) == \E i \in DOMAIN srvs : srvs[i].name = name

\* self.servers[name]
ServerOf(srvs, name) ==
    srvs[CHOOSE i \in DOMAIN srvs : srvs[i].name = name]

\* self.servers[server.name] = server: an existing key keeps its position
DictSet(srvs, server) ==
    IF HasKey(srvs, server.name)
    THEN [i \in DOMAIN srvs |->
            IF srvs[i].name = server.name THEN server ELSE srvs[i]]
    ELSE Append(srvs, server)

(***************************************************************************)
(* _rebuild_tool_registry: later servers of the iteration overwrite the    *)
(* entries of earlier ones.                                                *)
(***************************************************************************)
RECURSIVE RegistryFrom(_, _, _)
RegistryFrom(srvs, i, reg) ==
    IF i > Len(srvs) THEN reg
    ELSE LET server == srvs[i]
             names == IF server.enabled
                      THEN {t \in Range(server.tools) : t # ""}
                      ELSE {}
         IN  RegistryFrom(srvs, i + 1,
                 [t \in DOMAIN reg \cup names |->
                     IF t \in names THEN server.name ELSE reg[t]])

rebuild_tool_registry(srvs) == RegistryFrom(srvs, 1, << >>)

(***************************************************************************)
(* MCPToolResult, MCPToolCall and the record of one handler execution.     *)
(***************************************************************************)
MCPToolResult(call_id, result, error, requires_approval) ==
    [call_id |-> call_id, result |-> result, error |-> error,
     requires_approval |-> requires_approval]

MCPToolCall(name, arguments, call_id) ==
    [name |-> name, arguments |-> arguments, call_id |-> call_id]

HandlerRun(tool_name, arguments, executor, server) ==
    [tool |-> tool_name, arguments |-> arguments, executor |-> executor,
     server |-> server.name, approval_mode |-> server.approval_mode]

\* The state of the MCPProtocolHandler instance
Handler(srvs, pending, registry) ==
    [servers |-> srvs, pending_approvals |-> pending, tool_registry |-> registry]

\* What a method call yields: the instance afterwards, the value returned and
\* the handlers it executed
Outcome(self, result, runs) == [self |-> self, result |-> result, runs |-> runs]

(***************************************************************************)
(* _execute_builtin_tool and _execute_external_tool.                       *)
(***************************************************************************)
\* _execute_external_tool that takes a server out of service when the
\* request to it raises
execute_external_tool_disabling(self, server, tool_name, arguments, ext) ==
    LET srvs == IF ext = "exception"
                THEN DictSet(self.servers, [server EXCEPT !.enabled = FALSE])
                ELSE self.servers
    IN  [self |-> [self EXCEPT !.servers = srvs,
                               !.tool_registry = rebuild_tool_registry(srvs)],
         result |-> MCPToolResult(None, "", IF ext = "ok" THEN None ELSE "failed", FALSE),
         runs |-> <<HandlerRun(tool_name, arguments, "external", server)>>]

execute_builtin_tool(self, server, tool_name, arguments) ==
    IF tool_name \in BuiltinHandlers
    THEN Outcome(self,
                 MCPToolResult(None, "handled " \o tool_name \o " " \o arguments,
                               None, FALSE),
                 <<HandlerRun(tool_name, arguments, "builtin", server)>>)
    ELSE Outcome(self,
                 MCPToolResult(None, "", "Unknown built-in tool", FALSE),
                 << >>)

execute_external_tool(self, server, tool_name, arguments, ext) ==
    Outcome(self,
            CASE ext = "ok" ->
                   MCPToolResult(None, "remote " \o tool_name \o " " \o arguments,
                                 None, FALSE)
              [] ext = "status_error" ->
                   MCPToolResult(None, "", "Server returned status", FALSE)
              [] OTHER ->
                   MCPToolResult(None, "", "Failed to communicate with MCP server",
                                 FALSE),
            <<HandlerRun(tool_name, arguments, "external", server)>>)

(***************************************************************************)
(* execute_tool.  requires_approval is {} for the default None, else       *)
(* {TRUE} or {FALSE}.                                                      *)
(***************************************************************************)
\* default_requires_approval with the mode written "always-ask"
default_requires_approval_misspelt(server) == server.approval_mode = "always-ask"

\* line 270: the provider's approval mode decides when the caller does not
default_requires_approval(server) == server.approval_mode = "always_ask"

\* line 274: the id of a gated call
make_call_id(user_id, tool_name, clock) ==
    user_id \o "_" \o tool_name \o "_" \o ToString(clock)

\* store_pending that loses the call
store_pending_lost(pending, call_id, tool_call) == pending

\* line 276: self.pending_approvals[call_id] = tool_call
store_pending(pending, call_id, tool_call) ==
    [c \in DOMAIN pending \cup {call_id} |->
        IF c = call_id THEN tool_call ELSE pending[c]]

\* lines 265-266: the provider a registered tool name is routed to
resolve(self, tool_name) == ServerOf(self.servers, self.tool_registry[tool_name])

execute_tool(self, tool_name, arguments, user_id, requires_approval, clock, ext) ==
    IF tool_name \notin DOMAIN self.tool_registry
    THEN Outcome(self,
                 MCPToolResult(None, "", "Tool not found in any registered MCP server",
                               FALSE),
                 << >>)
    ELSE LET server == resolve(self, tool_name)
             gated == IF requires_approval = {}
                      THEN default_requires_approval(server)
                      ELSE TRUE \in requires_approval
             call_id == make_call_id(user_id, tool_name, clock)
         IN  IF gated
             THEN Outcome(
                    [self EXCEPT !.pending_approvals =
                        store_pending(@, call_id,
                                      MCPToolCall(tool_name, arguments, call_id))],
                    MCPToolResult(call_id, "requires approval " \o call_id, None, TRUE),
                    << >>)
             ELSE IF startswith_builtin(server.url)
                  THEN execute_builtin_tool(self, server, tool_name, arguments)
                  ELSE execute_external_tool(self, server, tool_name, arguments, ext)

(***************************************************************************)
(* approve_tool_call.                                                      *)
(***************************************************************************)
\* pop_pending as a lookup that leaves the entry in place
pop_pending_kept(pending, call_id) == pending

\* line 306: self.pending_approvals.pop(call_id)
pop_pending(pending, call_id) ==
    [c \in DOMAIN pending \ {call_id} |-> pending[c]]

\* approved_requires_approval left at the default None
approved_requires_approval_unset == {}

\* line 313: the approved call is executed with the approval requirement off
approved_requires_approval == {FALSE}

approve_tool_call(self, call_id, clock, ext) ==
    IF call_id \notin DOMAIN self.pending_approvals
    THEN Outcome(self,
                 MCPToolResult(None, "", "No pending approval found", FALSE),
                 << >>)
    ELSE LET tool_call == self.pending_approvals[call_id]
             popped == [self EXCEPT !.pending_approvals = pop_pending(@, call_id)]
         IN  execute_tool(popped, tool_call.name, tool_call.arguments, "approved",
                          approved_requires_approval, clock, ext)

\* main.py 593-594: del mcp_handler.pending_approvals[call_id]
del_pending(pending, call_id) ==
    [c \in DOMAIN pending \ {call_id} |-> pending[c]]

(***************************************************************************)
(* get_available_tools: the tools of the enabled servers, concatenated.    *)
(***************************************************************************)
RECURSIVE ToolsFrom(_, _)
ToolsFrom(srvs, i) ==
    IF i > Len(srvs) THEN << >>
    ELSE (IF srvs[i].enabled THEN srvs[i].tools ELSE << >>) \o ToolsFrom(srvs, i + 1)

get_available_tools(self) == ToolsFrom(self.servers, 1)

(***************************************************************************)
(* add_custom_server.  config is the server_config dict; valid tells       *)
(* whether the MCPServer built from server_config validates; fetched is    *)
(* what _fetch_server_tools returns: the empty list when the fetch fails.   *)
(***************************************************************************)
add_custom_server(self, config, valid, fetched) ==
    IF ~valid
    THEN Outcome(self, FALSE, << >>)
    ELSE LET server == IF startswith_http(config.url)
                       THEN [config EXCEPT !.tools = fetched]
                       ELSE config
             srvs == DictSet(self.servers, server)
         IN  Outcome([self EXCEPT !.servers = srvs,
                                  !.tool_registry = rebuild_tool_registry(srvs)],
                     TRUE, << >>)

(***************************************************************************)
(* generate_bot_response, from the model's answer on (main.py 549-578).    *)
(* llm is "no_key" when no model key is configured, "error" when the first *)
(* model call raises, "cont_error" when a call that continues with a tool  *)
(* result raises, else "ok"; parts are the function calls of the model's   *)
(* answer.                                                                 *)
(***************************************************************************)
FunctionCall(name, arguments) == [name |-> name, arguments |-> arguments]

\* the approval mode of the provider a tool name resolves to
ResolvedMode(self, tool_name) ==
    IF tool_name \in DOMAIN self.tool_registry
    THEN resolve(self, tool_name).approval_mode
    ELSE "unregistered"

Execution(self, part, out) ==
    [tool |-> part.name, arguments |-> part.arguments,
     mode |-> ResolvedMode(self, part.name),
     result |-> out.result, runs |-> out.runs]

BotResponse(self, text, requires_approval, call_id, execs) ==
    [self |-> self, text |-> text, requires_approval |-> requires_approval,
     call_id |-> call_id, execs |-> execs]

RECURSIVE handle_function_calls(_, _, _, _, _, _, _, _)
handle_function_calls(self, user_id, parts, i, clock, ext, llm, execs) ==
    IF i > Len(parts)
    THEN BotResponse(self, "reply", FALSE, None, execs)
    ELSE LET out == execute_tool(self, parts[i].name, parts[i].arguments,
                                 user_id, {}, clock, ext)
             done == Append(execs, Execution(self, parts[i], out))
         IN  IF out.result.requires_approval
             THEN BotResponse(out.self,
                     "I'd like to " \o parts[i].name \o " with " \o parts[i].arguments,
                     TRUE, out.result.call_id, done)
             ELSE IF llm = "cont_error"
                  THEN BotResponse(out.self, "I encountered an error", FALSE, None, done)
                  ELSE handle_function_calls(out.self, user_id, parts, i + 1,
                                             clock, ext, llm, done)

generate_bot_response(self, session, llm, parts, clock, ext) ==
    CASE llm = "no_key" ->
           BotResponse(self, "my language model is not configured", FALSE, None, << >>)
      [] llm = "error" ->
           BotResponse(self, "I encountered an error", FALSE, None, << >>)
      [] OTHER ->
           handle_function_calls(self, session.user_id, parts, 1, clock, ext, llm, << >>)


(***************************************************************************)
(* Sessions (main.py): the session registry, the WebSocket endpoint and    *)
(* end_voice_session.                                                      *)
(***************************************************************************)
\* line 212: the session id; int() of the timestamp drops the part of a second
make_session_id(user_id, bot_id, clock) ==
    user_id \o "-" \o bot_id \o "-" \o ToString(clock \div TicksPerSecond)

\* lines 213-222: a new session, with the fields the model reads.  The
\* keys muted and is_interrupted are absent until a message sets them;
\* muted is read with the default False (lines 358 and 375) and
\* is_interrupted is never read
NewSession(user_id, bot_id) ==
    [user_id |-> user_id, bot_id |-> bot_id, messages |-> << >>,
     muted |-> FALSE, is_interrupted |-> FALSE]

ChatMessage(role, content) == [role |-> role, content |-> content]

\* d[key] = value and del d[key] on a dict that is only indexed
Put(d, key, value) ==
    [k \in DOMAIN d \cup {key} |-> IF k = key THEN value ELSE d[k]]

Del(d, key) == [k \in DOMAIN d \ {key} |-> d[k]]

\* strip that leaves blanks in place
strip_nothing(text) == text

\* str.strip on the texts of the model
strip(text) == IF text = " " THEN "" ELSE text

\* end_voice_session that does not compare the owner
end_checks_no_owner(sessions, session_id, user) ==
    IF session_id \notin DOMAIN sessions THEN "404: Session not found" ELSE "ok"

\* lines 242-249: the checks of end_voice_session
end_checks(sessions, session_id, user) ==
    IF session_id \notin DOMAIN sessions THEN "404: Session not found"
    ELSE IF sessions[session_id].user_id # user THEN "403: Access denied"
    ELSE "ok"

\* lines 275-277: every exception raised in end_voice_session, the
\* HTTPException of a failed check included, is raised again with status 500
EndFailure(session_id, user, detail) ==
    [op |-> "end_voice_session", session_id |-> session_id, user |-> user,
     status |-> 500, detail |-> detail]

EndSuccess(session_id, user) ==
    [op |-> "end_voice_session", session_id |-> session_id, user |-> user,
     status |-> 200, detail |-> "session_ended"]

(***************************************************************************)
(* The state machine.                                                      *)
(***************************************************************************)
Self == Handler(servers, pending_approvals, tool_registry)

SetHandler(self) ==
    /\ servers' = self.servers
    /\ pending_approvals' = self.pending_approvals
    /\ tool_registry' = self.tool_registry

NoCalls == [issued |-> 0, approved |-> 0, denied |-> 0, ran |-> 0]

CallsOf(c, call_id) == IF call_id \in DOMAIN c THEN c[call_id] ELSE NoCalls

Bump(c, call_id, field, n) ==
    [k \in DOMAIN c \cup {call_id} |->
        IF k = call_id
        THEN [CallsOf(c, k) EXCEPT ![field] = @ + n]
        ELSE c[k]]

\* the call ids under which the executions of a turn stored a pending call
RECURSIVE Issue(_, _, _)
Issue(c, execs, i) ==
    IF i > Len(execs) THEN c
    ELSE Issue(IF execs[i].result.requires_approval
               THEN Bump(c, execs[i].result.call_id, "issued", 1)
               ELSE c,
               execs, i + 1)

MoveToEnd(names, name) ==
    Append(SelectSeq(names, LAMBDA n : n # name), name)

Init ==
    /\ servers = DefaultServers
    /\ tool_registry = rebuild_tool_registry(DefaultServers)
    /\ pending_approvals = << >>
    /\ voice_sessions = << >>
    /\ active_websockets = << >>
    /\ conns = << >>
    /\ ending = {}
    /\ conversations = << >>
    /\ now = 0
    /\ registered = [i \in DOMAIN DefaultServers |-> DefaultServers[i].name]
    /\ calls = << >>
    /\ last = [op |-> "init"]
    /\ nregs = 0
    /\ nturns = 0
    /\ nends = 0

\* datetime.now() moves on
Tick ==
    /\ now < MaxClock
    /\ now' = now + 1
    /\ UNCHANGED <<handler_vars, session_vars, registered, calls, last, counters>>

\* POST /api/mcp-servers (main.py 627-646): the MCPServerConfig of the request
\* has no tools, so the tools of the new server are those fetched, if any
AddMcpServerWith(limit, names, urls, modes, lists) ==
    /\ Free
    /\ nregs < limit
    /\ \E name \in names, url \in urls, enabled \in BOOLEAN,
          mode \in modes, fetched \in lists :
         LET config == MCPServer(name, url, enabled, mode, << >>)
             out == add_custom_server(Self, config, TRUE, fetched)
         IN  /\ SetHandler(out.self)
             /\ registered' = IF out.result THEN MoveToEnd(registered, name)
                              ELSE registered
             /\ last' = [op |-> "add_custom_server", name |-> name,
                         result |-> out.result]
    /\ nregs' = nregs + 1
    /\ UNCHANGED <<session_vars, now, calls, nturns, nends>>

AddMcpServer(limit) ==
    AddMcpServerWith(limit, ServerNames, Urls, ApprovalModes, ToolLists)

\* the answers of the model: no function call unless the model answered
AnswersUpTo(maxparts) ==
    {<<llm, << >> >> : llm \in LlmOutcomes} \cup
    {<<llm, parts>> : llm \in {"ok", "cont_error"},
                      parts \in UNION {[1 .. n -> [name : CallTools,
                                                   arguments : ArgValues]] :
                                       n \in 1 .. maxparts}}

Answers == AnswersUpTo(MaxParts)

\* generate_bot_response for a session of some user (main.py 492-578)
BotTurnWith(limit, answers) ==
    /\ Free
    /\ nturns < limit
    /\ \E user_id \in Users, answer \in answers, ext \in ExternalOutcomes :
         LET out == generate_bot_response(Self, [user_id |-> user_id], answer[1],
                                          answer[2], now, ext)
         IN  /\ SetHandler(out.self)
             /\ calls' = Issue(calls, out.execs, 1)
             /\ last' = [op |-> "generate_bot_response", user_id |-> user_id,
                         execs |-> out.execs, text |-> out.text,
                         requires_approval |-> out.requires_approval,
                         call_id |-> out.call_id]
    /\ nturns' = nturns + 1
    /\ UNCHANGED <<session_vars, now, registered, nregs, nends>>

BotTurn == BotTurnWith(MaxTurns, Answers)

\* the call ids a request may name: those issued and one that never was
CallIds == DOMAIN calls \cup {"u1_nothing_0"}

\* POST /api/tools/approve with approved = true (main.py 588-590); user is
\* the authenticated user of the request
ApproveCall ==
    /\ Free
    /\ \E user \in Users, call_id \in CallIds, ext \in ExternalOutcomes :
         LET out == approve_tool_call(Self, call_id, now, ext)
             was_pending == call_id \in DOMAIN pending_approvals
         IN  /\ SetHandler(out.self)
             /\ calls' = IF was_pending
                         THEN Bump(Bump(calls, call_id, "approved", 1),
                                   call_id, "ran", Len(out.runs))
                         ELSE calls
             /\ last' = [op |-> "approve", user |-> user, call_id |-> call_id,
                         was_pending |-> was_pending,
                         stored |-> IF was_pending THEN {pending_approvals[call_id]}
                                    ELSE {},
                         result |-> out.result, runs |-> out.runs,
                         new_pending |-> DOMAIN out.self.pending_approvals
                                             \ DOMAIN pending_approvals,
                         response |-> [status |-> "approved",
                                       result |-> out.result.result,
                                       error |-> out.result.error]]
    /\ UNCHANGED <<session_vars, now, registered, counters>>

\* POST /api/tools/approve with approved = false (main.py 591-595)
DenyCall ==
    /\ Free
    /\ \E user \in Users, call_id \in CallIds :
         LET was_pending == call_id \in DOMAIN pending_approvals
         IN  /\ pending_approvals' = IF was_pending
                                     THEN del_pending(pending_approvals, call_id)
                                     ELSE pending_approvals
             /\ calls' = IF was_pending THEN Bump(calls, call_id, "denied", 1)
                         ELSE calls
             /\ last' = [op |-> "deny", user |-> user, call_id |-> call_id,
                         was_pending |-> was_pending,
                         response |-> [status |-> "denied",
                                       message |-> "Tool call was denied by user"]]
    /\ UNCHANGED <<servers, tool_registry, session_vars, now, registered, counters>>

\* The tool protocol: registration, model turns, approval and denial
Next ==
    \/ Tick
    \/ AddMcpServer(MaxRegs)
    \/ BotTurn
    \/ ApproveCall
    \/ DenyCall

Spec == Init /\ [][Next]_vars

\* Turns whose answer holds several function calls, after registrations
ChainNext ==
    \/ AddMcpServer(MaxRegs)
    \/ BotTurnWith(MaxChainTurns, AnswersUpTo(MaxChainParts))

ChainSpec == Init /\ [][ChainNext]_vars

\* Registrations alone
RegistryNext ==
    AddMcpServerWith(MaxRegistryRegs, ServerNames, Urls, ApprovalModes, FetchedLists)

RegistrySpec == Init /\ [][RegistryNext]_vars

(***************************************************************************)
(* Session actions.                                                        *)
(***************************************************************************)
\* the session ids a request may name: those registered and one that is not
SessionIds == DOMAIN voice_sessions \cup {"u1-b1-none"}

\* A connection whose endpoint waits in receive_json.  kind, out and text
\* describe the message being handled; orphan holds the session dict of a
\* handler whose session was removed from voice_sessions or replaced there;
\* down tells that the server closed the socket under a running handler; hit
\* (history) tells that an interrupt arrived during the turn
Conn(session_id, state) ==
    [session_id |-> session_id, state |-> state, kind |-> "none", out |-> "none",
     text |-> "", orphan |-> << >>, down |-> FALSE, hit |-> FALSE]

\* the states in which handle_websocket_message is suspended at an await
Suspended == {"tool", "sending", "transcribed"}

\* a turn is in progress on a connection from the appending of the user
\* message to the emission of the response
InTurn(conn) ==
    \/ conn.state = "tool"
    \/ conn.state = "sending" /\ conn.out = "response"

\* the handlers suspended on the dict of session_id keep that dict when
\* voice_sessions[session_id] is deleted or assigned again
Detach(cs, sessions, session_id) ==
    [w \in DOMAIN cs |->
        IF /\ cs[w].session_id = session_id
           /\ cs[w].state \in Suspended
           /\ cs[w].orphan = << >>
           /\ session_id \in DOMAIN sessions
        THEN [cs[w] EXCEPT !.orphan = <<sessions[session_id]>>]
        ELSE cs[w]]

\* POST /api/voice-session/start (main.py 184-236); ok tells whether the bot
\* configuration and the access token were obtained
StartVoiceSession(users) ==
    /\ Free
    /\ \E user_id \in users, bot_id \in Bots, ok \in BOOLEAN :
         LET session_id == make_session_id(user_id, bot_id, now)
         IN  /\ voice_sessions' = IF ok
                                  THEN Put(voice_sessions, session_id,
                                           NewSession(user_id, bot_id))
                                  ELSE voice_sessions
             /\ conns' = IF ok THEN Detach(conns, voice_sessions, session_id)
                         ELSE conns
             /\ last' = [op |-> "start_voice_session", session_id |-> session_id,
                         status |-> IF ok THEN 200 ELSE 500]
    /\ UNCHANGED <<handler_vars, active_websockets, ending, conversations,
                   now, registered, calls, counters>>

\* websocket_endpoint up to its first message (main.py 281-299): the binding
\* is recorded before the session is looked up; caller is the user who
\* connects, of whom the endpoint takes no notice
WsConnect ==
    /\ Free
    /\ \E w \in ConnIds \ DOMAIN conns, session_id \in SessionIds,
          caller \in Users :
         LET known == session_id \in DOMAIN voice_sessions
         IN  /\ active_websockets' = Put(active_websockets, session_id, w)
             /\ conns' = Put(conns, w,
                             Conn(session_id,
                                  IF known THEN "open" ELSE "rejecting"))
             /\ last' = [op |-> "websocket_connect", session_id |-> session_id,
                         caller |-> caller,
                         sent |-> IF known THEN "connected" ELSE "error"]
    /\ UNCHANGED <<handler_vars, voice_sessions, ending, conversations, now,
                   registered, calls, counters>>

\* websocket_endpoint's finally (main.py 313-316), after the return of a
\* rejected connection, a disconnect by the client on a connection that
\* waits for a message, or a close by the server
WsClose ==
    /\ Free
    /\ \E w \in DOMAIN conns :
         /\ conns[w].state \in {"open", "rejecting", "server_closed"}
         /\ active_websockets' =
               IF conns[w].session_id \in DOMAIN active_websockets
               THEN Del(active_websockets, conns[w].session_id)
               ELSE active_websockets
         /\ conns' = [conns EXCEPT ![w].state = "closed"]
         /\ last' = [op |-> "websocket_close",
                     session_id |-> conns[w].session_id]
    /\ UNCHANGED <<handler_vars, voice_sessions, ending, conversations, now,
                   registered, calls, counters>>

(***************************************************************************)
(* handle_websocket_message (main.py 318-405).  A handler runs from the    *)
(* receipt of a message to its first await that waits for input or output: *)
(* the request to an external server (mcp_protocol.py 357) and each        *)
(* send_json.  The calls of the speech and language models block and the   *)
(* built-in handlers return at once, so nothing else runs meanwhile.       *)
(* nturns counts the messages received.                                    *)
(***************************************************************************)
\* lines 408-452: stt is "no_key" without a Deepgram key, "exception" when
\* the request raises, "no_alternatives" for a response without a
\* transcript, else "heard" with the transcript of the first alternative
process_audio_stt(stt, transcript) ==
    IF stt = "no_key" THEN None
    ELSE IF stt = "exception" THEN None
    ELSE IF stt = "heard" /\ transcript # "" /\ strip(transcript) # ""
         THEN strip(transcript)
         ELSE None

\* lines 454-490
generate_tts_audio(tts, text) ==
    IF tts = "no_key" \/ strip(text) = "" THEN None
    ELSE IF tts = "ok" THEN "mp3"
    ELSE None

\* line 358: whether generate_tts_audio is called for the response
tts_invoked(kind, session, text) ==
    kind = "audio" /\ text # "" /\ ~session.muted

\* lines 357-364: the audio attached to the response of an audio message
response_audio(kind, session, text, tts) ==
    IF tts_invoked(kind, session, text)
    THEN generate_tts_audio(tts, text)
    ELSE None

\* the session dict a handler holds
SessionOf(w) ==
    IF conns[w].orphan # << >> THEN conns[w].orphan[1]
    ELSE voice_sessions[conns[w].session_id]

\* the handler on w leaves its session dict as session and itself as conn
Keep(w, session, conn) ==
    IF conns[w].orphan # << >>
    THEN /\ conns' = [conns EXCEPT ![w] = [conn EXCEPT !.orphan = <<session>>]]
         /\ UNCHANGED voice_sessions
    ELSE /\ conns' = [conns EXCEPT ![w] = conn]
         /\ voice_sessions' =
               [voice_sessions EXCEPT ![conns[w].session_id] = session]

\* the handler on w is suspended in send_json
Sending(conn, kind, out, text) ==
    [conn EXCEPT !.state = "sending", !.kind = kind, !.out = out, !.text = text]

Said(session, role, content) ==
    [session EXCEPT !.messages = Append(@, ChatMessage(role, content))]

\* messages[-ContextSize:]
ContextSize == 10

LastMessages(messages) ==
    SubSeq(messages,
           IF Len(messages) > ContextSize THEN Len(messages) - ContextSize + 1 ELSE 1,
           Len(messages))

\* the conversation built for the language model (lines 507-543): the
\* system prompt, the last messages of the session with the roles of the
\* model, and the user input; << >> when no model key is configured
conversation(session, user_input, llm) ==
    IF llm = "no_key" THEN << >>
    ELSE LET messages == LastMessages(session.messages)
         IN  <<ChatMessage("user", "system_prompt")>>
             \o [i \in DOMAIN messages |->
                    ChatMessage(IF messages[i].role = "user" THEN "user" ELSE "model",
                                messages[i].content)]
             \o <<ChatMessage("user", user_input)>>

\* one of the function calls was sent to an external server
ExternalRun(execs) ==
    \E i \in DOMAIN execs :
       \E j \in DOMAIN execs[i].runs : execs[i].runs[j].executor = "external"

\* the collaborators that failed in a turn
FailedIn(llm, execs) ==
    (IF llm \in {"no_key", "error", "cont_error"} THEN {"llm"} ELSE {}) \cup
    (IF \E i \in DOMAIN execs : execs[i].result.error # None
     THEN {"tool"} ELSE {})

\* history of a message handled: its type, the text it carried or was heard
\* as, what the handler goes on to send, whether generate_bot_response was
\* called and the collaborators that failed
Handled(op, text, sends, llm, failed) ==
    [op |-> op, text |-> text, sends |-> sends, llm |-> llm, failed |-> failed]

\* the session of the connection is not registered: line 321 raises
\* KeyError and line 405 sends the error
NoSession(w, kind, text) ==
    /\ conns' = [conns EXCEPT ![w] = Sending(@, kind, "error", "")]
    /\ last' = Handled(kind, text, "error", FALSE, {})
    /\ UNCHANGED <<handler_vars, voice_sessions, calls>>

\* the handler returns without sending anything
NoAnswer(kind, text, failed) ==
    /\ last' = Handled(kind, text, "nothing", FALSE, failed)
    /\ UNCHANGED <<handler_vars, voice_sessions, conns, calls>>

\* lines 338-366 and 385-401: the user message, generate_bot_response and,
\* unless a function call waits for an external server, the assistant
\* message; the function calls of one answer are all made in this step
BeginTurn(w, kind, text, answer, ext, tts) ==
    LET asked == Said(SessionOf(w), "user", text)
        out == generate_bot_response(Self, asked, answer[1], answer[2], now, ext)
        waits == ExternalRun(out.execs)
        failed == FailedIn(answer[1], out.execs)
    IN  /\ SetHandler(out.self)
        /\ calls' = Issue(calls, out.execs, 1)
        /\ IF waits
           THEN /\ Keep(w, asked, [conns[w] EXCEPT !.state = "tool",
                                                   !.kind = kind,
                                                   !.text = out.text])
                /\ last' = Handled(kind, text, "later", TRUE, failed)
                            @@ [context |-> conversation(asked, text, answer[1]),
                                stored |-> asked.messages]
           ELSE /\ Keep(w, Said(asked, "assistant", out.text),
                        Sending(conns[w], kind, "response", out.text))
                /\ last' = Handled(kind, text, "response", TRUE,
                              failed \cup
                              (IF /\ tts_invoked(kind, asked, out.text)
                                  /\ response_audio(kind, asked, out.text, tts) = None
                               THEN {"tts"} ELSE {}))
                            @@ [tts |-> tts_invoked(kind, asked, out.text),
                                muted |-> asked.muted,
                                context |-> conversation(asked, text, answer[1]),
                                stored |-> asked.messages]

\* a text_input message (lines 381-401)
TextInput(limit, answers) ==
    /\ Free
    /\ nturns < limit
    /\ \E w \in DOMAIN conns, text \in Texts, answer \in answers,
          ext \in ExternalOutcomes :
         /\ conns[w].state = "open"
         /\ IF conns[w].session_id \notin DOMAIN voice_sessions
            THEN NoSession(w, "text_input", text)
            ELSE IF strip(text) = ""
            THEN NoAnswer("text_input", text, {})
            ELSE BeginTurn(w, "text_input", strip(text), answer, ext, "ok")
    /\ nturns' = nturns + 1
    /\ UNCHANGED <<active_websockets, ending, conversations, now, registered,
                   nregs, nends>>

\* an audio message up to the request to the speech model (lines 324-328
\* and 408-437): transcribe_file is called without await and holds the
\* event loop until it returns.  key tells whether the Deepgram key is set
Audio(limit) ==
    /\ Free
    /\ nturns < limit
    /\ \E w \in DOMAIN conns, audio_data \in BOOLEAN, key \in BOOLEAN :
         /\ conns[w].state = "open"
         /\ IF conns[w].session_id \notin DOMAIN voice_sessions
            THEN NoSession(w, "audio", None)
            ELSE IF ~audio_data
            THEN NoAnswer("audio", None, {})
            ELSE IF ~key
            THEN NoAnswer("audio", process_audio_stt("no_key", ""), {"stt"})
            ELSE /\ conns' = [conns EXCEPT ![w].state = "stt", ![w].kind = "audio"]
                 /\ last' = [op |-> "audio_received"]
                 /\ UNCHANGED <<handler_vars, voice_sessions, calls>>
    /\ nturns' = nturns + 1
    /\ UNCHANGED <<active_websockets, ending, conversations, now, registered,
                   nregs, nends>>

\* the speech model returned (lines 437-452 and 330-336): the transcription
\* is sent, or the handler returns
SttDone ==
    /\ \E w \in DOMAIN conns, stt \in SttOutcomes \ {"no_key"}, heard \in Texts :
         /\ conns[w].state = "stt"
         /\ LET transcript == process_audio_stt(stt, heard)
            IN  IF transcript # None /\ transcript # "" /\ strip(transcript) # ""
                THEN /\ conns' = [conns EXCEPT ![w] =
                            Sending(@, "audio", "transcription", transcript)]
                     /\ last' = Handled("audio", heard, "transcription", FALSE, {})
                ELSE /\ conns' = [conns EXCEPT ![w] = Conn(@.session_id, "open")]
                     /\ last' = Handled("audio",
                                        IF stt = "heard" THEN heard ELSE None,
                                        "nothing", FALSE,
                                        IF stt = "exception" THEN {"stt"} ELSE {})
    /\ UNCHANGED <<handler_vars, voice_sessions, active_websockets, ending,
                   conversations, now, registered, calls, counters>>

\* an audio message after its transcription was sent (lines 338-366)
AudioTurn(answers) ==
    /\ Free
    /\ \E w \in DOMAIN conns, answer \in answers, ext \in ExternalOutcomes,
          tts \in TtsOutcomes :
         /\ conns[w].state = "transcribed"
         /\ BeginTurn(w, "audio", conns[w].text, answer, ext, tts)
    /\ UNCHANGED <<active_websockets, ending, conversations, now, registered,
                   counters>>

\* an interrupt message (lines 368-371); the turns in progress on the
\* session are marked as interrupted
Interrupt(limit) ==
    /\ Free
    /\ nturns < limit
    /\ \E w \in DOMAIN conns :
         /\ conns[w].state = "open"
         /\ IF conns[w].session_id \notin DOMAIN voice_sessions
            THEN NoSession(w, "interrupt", None)
            ELSE /\ voice_sessions' =
                       [voice_sessions EXCEPT
                           ![conns[w].session_id].is_interrupted = TRUE]
                 /\ conns' =
                       [v \in DOMAIN conns |->
                           IF v = w
                           THEN Sending(conns[v], "interrupt", "interrupted", "")
                           ELSE IF conns[v].session_id = conns[w].session_id
                                   /\ InTurn(conns[v])
                           THEN [conns[v] EXCEPT !.hit = TRUE]
                           ELSE conns[v]]
                 /\ last' = Handled("interrupt", None, "interrupted", FALSE, {})
                 /\ UNCHANGED <<handler_vars, calls>>
    /\ nturns' = nturns + 1
    /\ UNCHANGED <<active_websockets, ending, conversations, now, registered,
                   nregs, nends>>

\* a toggle_mute message (lines 373-379)
ToggleMute(limit) ==
    /\ Free
    /\ nturns < limit
    /\ \E w \in DOMAIN conns :
         /\ conns[w].state = "open"
         /\ IF conns[w].session_id \notin DOMAIN voice_sessions
            THEN NoSession(w, "toggle_mute", None)
            ELSE /\ voice_sessions' =
                       [voice_sessions EXCEPT
                           ![conns[w].session_id].muted = ~@]
                 /\ conns' = [conns EXCEPT ![w] =
                                 Sending(@, "toggle_mute", "mute_status", "")]
                 /\ last' = Handled("toggle_mute", None, "mute_status", FALSE, {})
                 /\ UNCHANGED <<handler_vars, calls>>
    /\ nturns' = nturns + 1
    /\ UNCHANGED <<active_websockets, ending, conversations, now, registered,
                   nregs, nends>>

\* the external server answered: the assistant message (lines 345-366 and
\* 392-401)
ToolDone ==
    /\ Free
    /\ \E w \in DOMAIN conns, tts \in TtsOutcomes :
         /\ conns[w].state = "tool"
         /\ Keep(w, Said(SessionOf(w), "assistant", conns[w].text),
                 Sending(conns[w], conns[w].kind, "response", conns[w].text))
         /\ last' = [op |-> "tool_done", sends |-> "response",
                     audio |-> response_audio(conns[w].kind, SessionOf(w),
                                              conns[w].text, tts),
                     tts |-> tts_invoked(conns[w].kind, SessionOf(w),
                                         conns[w].text),
                     muted |-> SessionOf(w).muted]
    /\ UNCHANGED <<handler_vars, active_websockets, ending, conversations, now,
                   registered, calls, counters>>

\* send_json returns: the message is delivered, or the socket was closed by
\* the server and the error leaves the endpoint through its finally
SendDone ==
    /\ Free
    /\ \E w \in DOMAIN conns :
         /\ conns[w].state = "sending"
         /\ conns' = [conns EXCEPT ![w] =
               IF conns[w].down
               THEN [@ EXCEPT !.state = "server_closed"]
               ELSE IF conns[w].out = "transcription"
               THEN [@ EXCEPT !.state = "transcribed", !.out = "none"]
               ELSE Conn(@.session_id, "open")]
         /\ last' = [op |-> "send", type |-> conns[w].out,
                     kind |-> conns[w].kind,
                     delivered |-> ~conns[w].down, hit |-> conns[w].hit]
    /\ UNCHANGED <<handler_vars, voice_sessions, active_websockets, ending,
                   conversations, now, registered, calls, counters>>

\* the close of the socket bound to a session (main.py 267-268): an endpoint
\* that waits for a message leaves through its finally, a running handler
\* fails at its next send
ClosedByServer(cs, w) ==
    [cs EXCEPT ![w] = IF @.state = "open" THEN [@ EXCEPT !.state = "server_closed"]
                      ELSE IF @.state \in Suspended THEN [@ EXCEPT !.down = TRUE]
                      ELSE @]

\* end_voice_session from the removal of the session on (main.py 259-273):
\* the voice client was never connected, so its disconnect does nothing;
\* the close of a bound WebSocket is awaited.  others are the requests
\* that stay in flight
RemoveSession(session_id, user, others) ==
    IF session_id \notin DOMAIN voice_sessions
    THEN /\ last' = EndFailure(session_id, user, "KeyError")
         /\ ending' = others
         /\ UNCHANGED <<voice_sessions, conns>>
    ELSE /\ voice_sessions' = Del(voice_sessions, session_id)
         /\ IF session_id \in DOMAIN active_websockets
            THEN /\ conns' = ClosedByServer(
                                Detach(conns, voice_sessions, session_id),
                                active_websockets[session_id])
                 /\ ending' = others \cup
                                {[session_id |-> session_id, user |-> user,
                                  pc |-> "closing"]}
                 /\ last' = [op |-> "end_voice_session_closing",
                             session_id |-> session_id, user |-> user]
            ELSE /\ last' = EndSuccess(session_id, user)
                 /\ ending' = others
                 /\ conns' = Detach(conns, voice_sessions, session_id)

\* DELETE /api/voice-session/{session_id} up to the save of the conversation
\* (main.py 238-257); user is the id of the authenticated caller
EndVoiceSession ==
    /\ Free
    /\ nends < MaxEnds
    /\ \E session_id \in SessionIds, user \in Users :
         LET check == end_checks(voice_sessions, session_id, user)
         IN  IF check # "ok"
             THEN /\ last' = EndFailure(session_id, user, check)
                  /\ UNCHANGED <<voice_sessions, active_websockets, conns, ending,
                                 conversations>>
             ELSE LET session == voice_sessions[session_id]
                  IN  IF session.messages # << >>
                      THEN /\ conversations' =
                                Append(conversations,
                                       [user_id |-> session.user_id,
                                        bot_id |-> session.bot_id,
                                        messages |-> session.messages])
                           /\ ending' = ending \cup
                                          {[session_id |-> session_id,
                                            user |-> user, pc |-> "saving"]}
                           /\ last' = [op |-> "end_voice_session_saving",
                                       session_id |-> session_id, user |-> user]
                           /\ UNCHANGED <<voice_sessions, active_websockets, conns>>
                      ELSE /\ RemoveSession(session_id, user, ending)
                           /\ UNCHANGED <<active_websockets, conversations>>
    /\ nends' = nends + 1
    /\ UNCHANGED <<handler_vars, now, registered, calls, nregs, nturns>>

\* end_voice_session after save_conversation_to_supabase returned
EndAfterSave ==
    /\ Free
    /\ \E e \in ending :
         /\ e.pc = "saving"
         /\ RemoveSession(e.session_id, e.user, ending \ {e})
    /\ UNCHANGED <<handler_vars, active_websockets, conversations, now, registered,
                   calls, counters>>

\* end_voice_session after the close of the WebSocket returned (main.py
\* 269-273)
EndAfterClose ==
    /\ Free
    /\ \E e \in ending :
         /\ e.pc = "closing"
         /\ ending' = ending \ {e}
         /\ IF e.session_id \in DOMAIN active_websockets
            THEN /\ active_websockets' = Del(active_websockets, e.session_id)
                 /\ last' = EndSuccess(e.session_id, e.user)
            ELSE /\ active_websockets' = active_websockets
                 /\ last' = EndFailure(e.session_id, e.user, "KeyError")
    /\ UNCHANGED <<handler_vars, voice_sessions, conns, conversations, now,
                   registered, calls, counters>>

\* Sessions: their start and end, their WebSocket connections and turns
SessionNext ==
    \/ StartVoiceSession(Users)
    \/ WsConnect
    \/ WsClose
    \/ TextInput(MaxSessionTurns, Answers)
    \/ SendDone
    \/ EndVoiceSession
    \/ EndAfterSave
    \/ EndAfterClose

SessionSpec == Init /\ [][SessionNext]_vars

\* the answers of the model without a function call
PlainAnswers == {a \in Answers : a[2] = << >>}

\* Ends: the sessions of one user, their connections and turns, and
\* end_voice_session by either user
EndingNext ==
    \/ StartVoiceSession({"u1"})
    \/ WsConnect
    \/ TextInput(MaxTurns, PlainAnswers)
    \/ SendDone
    \/ EndVoiceSession
    \/ EndAfterSave
    \/ EndAfterClose

EndingSpec == Init /\ [][EndingNext]_vars

\* Blocking: the sessions of two users, audio and text messages
BlockingNext ==
    \/ StartVoiceSession(Users)
    \/ WsConnect
    \/ Audio(MaxTurns)
    \/ SttDone
    \/ AudioTurn(PlainAnswers)
    \/ TextInput(MaxTurns, PlainAnswers)
    \/ SendDone

BlockingSpec == Init /\ [][BlockingNext]_vars

\* the answers of the model that call the tool the external server offers
ExternalAnswers ==
    {a \in Answers : \A i \in DOMAIN a[2] : a[2][i] = FunctionCall("search_web", "a1")}

\* Messages: the sessions of one user, connections that stay open, every
\* kind of message, and an external server that runs search_web unasked
MessageNext ==
    \/ AddMcpServerWith(MaxRegs, {"custom"}, {HttpUrl}, {"auto_approve"},
                        {<<"search_web">>})
    \/ StartVoiceSession({"u1"})
    \/ WsConnect
    \/ TextInput(MaxTurns, ExternalAnswers)
    \/ Audio(MaxTurns)
    \/ SttDone
    \/ AudioTurn(ExternalAnswers)
    \/ Interrupt(MaxTurns)
    \/ ToggleMute(MaxTurns)
    \/ ToolDone
    \/ SendDone

MessageSpec == Init /\ [][MessageNext]_vars


(***************************************************************************)
(* C1: a gated call is consumed at most once.  For every call id, the      *)
(* approvals and denials that removed a pending call, plus the call still  *)
(* pending, never outnumber the times the id was issued; the handler ran   *)
(* at most once per approval that removed a call; after an approve or a    *)
(* deny the id is not pending; and an approve of an id that is not pending *)
(* returns the not-found error and runs no handler.                        *)
(***************************************************************************)
PendingCount(call_id) == IF call_id \in DOMAIN pending_approvals THEN 1 ELSE 0

C1_ConsumedAtMostOnce ==
    /\ \A c \in DOMAIN calls :
         /\ calls[c].approved + calls[c].denied + PendingCount(c) <= calls[c].issued
         /\ calls[c].ran <= calls[c].approved
    /\ last.op \in {"approve", "deny"} =>
         last.call_id \notin DOMAIN pending_approvals
    /\ (last.op = "approve" /\ ~last.was_pending) =>
         /\ last.runs = << >>
         /\ last.result.error = "No pending approval found"
         /\ last.response.error = "No pending approval found"
         /\ last.new_pending = {}

\* an approve of a call id that an earlier approve or deny had consumed
C1_Witness ==
    /\ last.op = "approve"
    /\ ~last.was_pending
    /\ last.call_id \in DOMAIN calls
    /\ calls[last.call_id].approved + calls[last.call_id].denied >= 1
    /\ calls[last.call_id].ran = calls[last.call_id].approved

(***************************************************************************)
(* C2: a turn's execute_tool never runs the handler of a tool whose        *)
(* resolved provider is always_ask, and every handler run happens in an    *)
(* approve_tool_call that took a pending call with the same tool name and  *)
(* arguments or in a turn whose provider was not always_ask.               *)
(***************************************************************************)
C2_AlwaysAskRunsOnlyApproved ==
    /\ last.op = "generate_bot_response" =>
         \A i \in DOMAIN last.execs :
            /\ last.execs[i].mode = "always_ask" => last.execs[i].runs = << >>
            /\ \A k \in DOMAIN last.execs[i].runs :
                 last.execs[i].runs[k].approval_mode # "always_ask"
    /\ last.op = "approve" =>
         \A k \in DOMAIN last.runs :
            /\ last.was_pending
            /\ \E call \in last.stored :
                 /\ call.name = last.runs[k].tool
                 /\ call.arguments = last.runs[k].arguments

\* the handler of an always_ask tool ran, in an approve
C2_Witness ==
    /\ last.op = "approve"
    /\ \E k \in DOMAIN last.runs : last.runs[k].approval_mode = "always_ask"

(***************************************************************************)
(* C3: a turn's execute_tool on a tool of an always_ask provider returns   *)
(* requires_approval with a non-empty call id, runs no handler, and puts   *)
(* the call with its name and arguments under that id; the other pending   *)
(* entries stay as they were.                                              *)
(***************************************************************************)
C3_GatedStep ==
    last'.op = "generate_bot_response" =>
        \A i \in DOMAIN last'.execs :
           LET e == last'.execs[i] IN
           e.mode = "always_ask" =>
              /\ e.result.requires_approval
              /\ e.result.call_id \notin {"", None}
              /\ e.runs = << >>
              /\ DOMAIN pending_approvals' =
                    DOMAIN pending_approvals \cup {e.result.call_id}
              /\ pending_approvals'[e.result.call_id] =
                    MCPToolCall(e.tool, e.arguments, e.result.call_id)
              /\ \A c \in DOMAIN pending_approvals \ {e.result.call_id} :
                    pending_approvals'[c] = pending_approvals[c]

C3_GatedCallStored == [][C3_GatedStep]_vars

\* a turn was gated and its call is pending
C3_Witness ==
    /\ last.op = "generate_bot_response"
    /\ last.requires_approval
    /\ last.call_id \in DOMAIN pending_approvals
    /\ \E i \in DOMAIN last.execs : last.execs[i].mode = "always_ask"

(***************************************************************************)
(* C4: approve_tool_call on a pending call id runs the tool's handler with *)
(* the stored name and arguments, returns requires_approval = false and    *)
(* creates no pending entry.                                               *)
(***************************************************************************)
RunsStored(op) ==
    /\ Len(op.runs) = 1
    /\ \E call \in op.stored :
         /\ op.runs[1].tool = call.name
         /\ op.runs[1].arguments = call.arguments

C4_ApproveRunsHandler ==
    (last.op = "approve" /\ last.was_pending) =>
        /\ RunsStored(last)
        /\ ~last.result.requires_approval
        /\ last.new_pending = {}

(***************************************************************************)
(* C4 as amended: approve_tool_call on a pending call id removes the call, *)
(* returns requires_approval = false and creates no pending entry; it runs *)
(* the handler, once, with the stored name and arguments when the stored   *)
(* tool name is still in the tool registry (and, for a builtin provider,   *)
(* has a builtin handler), and otherwise runs nothing and returns an       *)
(* error.                                                                  *)
(***************************************************************************)
HasHandler(self, tool_name) ==
    /\ tool_name \in DOMAIN self.tool_registry
    /\ startswith_builtin(resolve(self, tool_name).url) => tool_name \in BuiltinHandlers

C4_ApproveRunsRegisteredHandler ==
    (last.op = "approve" /\ last.was_pending) =>
        /\ ~last.result.requires_approval
        /\ last.new_pending = {}
        /\ last.call_id \notin DOMAIN pending_approvals
        /\ \A call \in last.stored :
             IF HasHandler(Self, call.name)
             THEN RunsStored(last)
             ELSE last.runs = << >> /\ last.result.error # None

\* an approve of a pending call ran the handler with the stored arguments
C4_Witness ==
    /\ last.op = "approve"
    /\ last.was_pending
    /\ RunsStored(last)
    /\ last.result.error = None

(***************************************************************************)
(* C5: a deny reports success exactly when it removed a pending call.      *)
(***************************************************************************)
\* what the caller of the deny request can read as success
DenyReportsRemoved(response) == response.status = "denied"

C5_DenyReportsRemoval ==
    last.op = "deny" => (DenyReportsRemoved(last.response) <=> last.was_pending)

(***************************************************************************)
(* C6: every gated call gets a call id that was never issued before.       *)
(***************************************************************************)
C6_CallIdsNeverReissued ==
    \A c \in DOMAIN calls : calls[c].issued <= 1

(***************************************************************************)
(* C7: get_available_tools lists at most one schema per tool name.         *)
(***************************************************************************)
C7_OneSchemaPerName ==
    LET tools == get_available_tools(Self)
    IN  \A i, j \in DOMAIN tools : tools[i] = tools[j] => i = j

(***************************************************************************)
(* C8: a tool name declared by enabled providers is routed to the one of   *)
(* them that was registered most recently.                                 *)
(***************************************************************************)
Declares(server, tool_name) ==
    server.enabled /\ tool_name \in Range(server.tools)

\* the position of a server name in the order of registrations
RegisteredAt(name) == CHOOSE i \in DOMAIN registered : registered[i] = name

C8_RoutesToMostRecent ==
    \A t \in DOMAIN tool_registry :
       \A i \in DOMAIN servers :
          Declares(servers[i], t) =>
             RegisteredAt(servers[i].name) <= RegisteredAt(resolve(Self, t).name)

(***************************************************************************)
(* C9: only add_custom_server changes servers and tool_registry; a turn's  *)
(* execute_tool, an approve and a deny leave them as they were.            *)
(***************************************************************************)
C9_Step ==
    (servers' # servers \/ tool_registry' # tool_registry) =>
        last'.op = "add_custom_server"

C9_OnlyRegistrationChangesRegistry == [][C9_Step]_vars

\* after a registration, a turn ran a handler or an approve did
C9_Witness ==
    /\ nregs >= 1
    /\ \/ last.op = "approve" /\ last.runs # << >>
       \/ /\ last.op = "generate_bot_response"
          /\ \E i \in DOMAIN last.execs : last.execs[i].runs # << >>

(***************************************************************************)
(* C10: an end_voice_session request by a user who does not own the        *)
(* session fails, and the session stays in voice_sessions with its         *)
(* messages, its binding in active_websockets and its connection as they   *)
(* were; no conversation is saved.                                         *)
(***************************************************************************)
C10_Step ==
    nends' = nends + 1 =>
       LET session_id == last'.session_id
           user == last'.user
       IN  (/\ session_id \in DOMAIN voice_sessions
            /\ voice_sessions[session_id].user_id # user) =>
              /\ last'.op = "end_voice_session"
              /\ last'.status # 200
              /\ session_id \in DOMAIN voice_sessions'
              /\ UNCHANGED <<voice_sessions, active_websockets, conns,
                             conversations, ending>>

C10_NonOwnerEndChangesNothing == [][C10_Step]_vars

\* a user who is not the owner asked to end a session that has messages
\* and a bound WebSocket
C10_Witness ==
    /\ last.op = "end_voice_session"
    /\ last.detail = "403: Access denied"
    /\ last.session_id \in DOMAIN voice_sessions
    /\ voice_sessions[last.session_id].user_id # last.user
    /\ voice_sessions[last.session_id].messages # << >>
    /\ last.session_id \in DOMAIN active_websockets
    /\ conns[active_websockets[last.session_id]].state = "open"

(***************************************************************************)
(* C11: the caller of end_voice_session can tell its three outcomes apart: *)
(* success has status 200, an unknown session id status 404 and a caller   *)
(* who is not the owner status 403.                                        *)
(***************************************************************************)
C11_EndOutcomesReachCaller ==
    last.op = "end_voice_session" =>
       /\ (last.detail = "404: Session not found" => last.status = 404)
       /\ (last.detail = "403: Access denied" => last.status = 403)
       /\ (last.detail = "session_ended" <=> last.status = 200)

(***************************************************************************)
(* C12: a WebSocket opened for a session id that is not registered, or by  *)
(* a caller who is not the owner of the session, is answered with an       *)
(* error and not with the connected confirmation.                          *)
(***************************************************************************)
C12_ConnectRejected ==
    (/\ last.op = "websocket_connect"
     /\ \/ last.session_id \notin DOMAIN voice_sessions
        \/ voice_sessions[last.session_id].user_id # last.caller)
       => last.sent = "error"

(***************************************************************************)
(* C13: start_voice_session leaves every session that is registered as it  *)
(* was, its messages included.                                             *)
(***************************************************************************)
C13_Step ==
    (last'.op = "start_voice_session") =>
       \A session_id \in DOMAIN voice_sessions :
          /\ session_id \in DOMAIN voice_sessions'
          /\ voice_sessions'[session_id] = voice_sessions[session_id]

C14_OneTurnAtATime ==
    \A v \in DOMAIN conns, w \in DOMAIN conns :
       (/\ v # w
        /\ conns[v].session_id = conns[w].session_id
        /\ conns[v].orphan = << >> /\ conns[w].orphan = << >>
        /\ InTurn(conns[v]))
          => ~InTurn(conns[w])

(***************************************************************************)
(* C15: the messages of every registered session alternate between the     *)
(* roles user and assistant, starting with user.                           *)
(***************************************************************************)
C15_RolesAlternate ==
    \A session_id \in DOMAIN voice_sessions :
       LET messages == voice_sessions[session_id].messages
       IN  \A i \in DOMAIN messages :
              messages[i].role = IF i % 2 = 1 THEN "user" ELSE "assistant"

(***************************************************************************)
(* C16: a text_input whose text is empty or blank, and an audio message    *)
(* without audio or whose transcript is absent, empty or blank, leaves     *)
(* the sessions and the tool handler as they were, does not call           *)
(* generate_bot_response and is not followed by a turn.                    *)
(***************************************************************************)
BlankTexts == {None, "", " "}

C16_Step ==
    (/\ \/ nturns' = nturns + 1
        \/ \E w \in DOMAIN conns : conns[w].state = "stt" /\ conns'[w].state # "stt"
     /\ last'.op \in {"text_input", "audio"}
     /\ last'.text \in BlankTexts)
       => /\ UNCHANGED <<voice_sessions, handler_vars, calls>>
          /\ ~last'.llm
          /\ last'.sends \in {"nothing", "error"}

C16_BlankInputIsNoTurn == [][C16_Step]_vars

\* a blank transcript was heard on a connection of a registered session
\* that has messages
C16_Witness ==
    /\ last.op = "audio"
    /\ last.text = " "
    /\ last.sends = "nothing"
    /\ \E w \in DOMAIN conns :
          /\ conns[w].state = "open"
          /\ conns[w].session_id \in DOMAIN voice_sessions
          /\ voice_sessions[conns[w].session_id].messages # << >>

(***************************************************************************)
(* C17: the response of a turn that was in progress when an interrupt      *)
(* arrived on its session is not emitted.                                  *)
(***************************************************************************)
C17_InterruptedResponseNotEmitted ==
    (last.op = "send" /\ last.type = "response" /\ last.hit) => ~last.delivered

(***************************************************************************)
(* C18: the handler of every message goes on to send a message on the      *)
(* connection.                                                             *)
(***************************************************************************)
MessageTypes == {"audio", "text_input", "interrupt", "toggle_mute"}

C18_EveryMessageAnswered ==
    last.op \in MessageTypes => last.sends # "nothing"

(***************************************************************************)
(* C19: a message in whose handling a collaborator failed is answered with *)
(* an assistant response.                                                  *)
(***************************************************************************)
C19_FailureIsExplained ==
    (last.op \in MessageTypes /\ last.failed # {}) =>
        last.sends \in {"response", "later"}

(***************************************************************************)
(* C20: once the endpoint of a closed connection has finished, the session *)
(* of the connection is not registered any more.                           *)
(***************************************************************************)
C20_CloseRemovesSession ==
    last.op = "websocket_close" => last.session_id \notin DOMAIN voice_sessions

(***************************************************************************)
(* C21: when the endpoint of a connection finishes while a newer, open     *)
(* connection is bound to the session, the binding of the newer            *)
(* connection stays.                                                       *)
(***************************************************************************)
C21_Step ==
    \A w \in DOMAIN conns :
       LET session_id == conns[w].session_id
       IN  (/\ last'.op = "websocket_close"
            /\ conns[w].state # "closed"
            /\ conns'[w].state = "closed"
            /\ session_id \in DOMAIN active_websockets
            /\ active_websockets[session_id] # w
            /\ conns[active_websockets[session_id]].state = "open")
              => active_websockets' = active_websockets

C21_OlderCloseKeepsNewerBinding == [][C21_Step]_vars

(***************************************************************************)
(* C22: a session is removed from voice_sessions only when none of its     *)
(* connections has a turn in progress.                                     *)
(***************************************************************************)
C22_Step ==
    \A session_id \in DOMAIN voice_sessions :
       session_id \notin DOMAIN voice_sessions' =>
          \A w \in DOMAIN conns :
             (conns[w].session_id = session_id /\ conns[w].orphan = << >>)
                => ~InTurn(conns[w])

C22_EndWaitsForTurn == [][C22_Step]_vars

(***************************************************************************)
(* C23: when a session is removed, its messages, if any, are those of a    *)
(* conversation that was saved for its user and bot.                       *)
(***************************************************************************)
C23_Step ==
    \A session_id \in DOMAIN voice_sessions :
       LET session == voice_sessions[session_id]
       IN  (session_id \notin DOMAIN voice_sessions' /\ session.messages # << >>)
              => \E i \in DOMAIN conversations :
                    /\ conversations[i].user_id = session.user_id
                    /\ conversations[i].bot_id = session.bot_id
                    /\ conversations[i].messages = session.messages

C23_SavedConversationIsComplete == [][C23_Step]_vars

(***************************************************************************)
(* C24: while a handler waits for the speech model, a text_input on an     *)
(* open connection of another, registered session can be handled.          *)
(***************************************************************************)
C24_OtherSessionsProceed ==
    \A a \in DOMAIN conns, b \in DOMAIN conns :
       (/\ conns[a].state = "stt"
        /\ conns[b].state = "open"
        /\ conns[b].session_id # conns[a].session_id
        /\ conns[b].session_id \in DOMAIN voice_sessions
        /\ nturns < MaxTurns)
          => ENABLED TextInput(MaxTurns, PlainAnswers)

(***************************************************************************)
(* C25: for every response built, the speech synthesis is invoked exactly  *)
(* when the session is not muted.                                          *)
(***************************************************************************)
C25_TtsIffNotMuted ==
    (last.op \in MessageTypes \cup {"tool_done"} /\ last.sends = "response")
       => (last.tts <=> ~last.muted)

(***************************************************************************)
(* C26: within one turn at most one of the model's function calls runs a   *)
(* tool, and so at most one follow-up model call carries a tool result.    *)
(***************************************************************************)
C26_OneToolCallPerTurn ==
    last.op = "generate_bot_response" =>
       Cardinality({i \in DOMAIN last.execs : last.execs[i].runs # << >>}) <= 1

(***************************************************************************)
(* C27: between operations the registry matches the servers exactly: a     *)
(* tool name is routable iff some enabled server declares it, every tool   *)
(* that get_available_tools advertises is routable, and no tool of a       *)
(* disabled server is routable through that server.                        *)
(***************************************************************************)
C27_RoutableIffDeclared ==
    \A t \in CallTools \cup BuiltinHandlers :
       t \in DOMAIN tool_registry <=>
          \E i \in DOMAIN servers : servers[i].enabled /\ t \in Range(servers[i].tools)

C27_DisabledContributeNothing ==
    \A t \in DOMAIN tool_registry :
       /\ HasKey(servers, tool_registry[t])
       /\ resolve(Self, t).enabled
       /\ t \in Range(resolve(Self, t).tools)

C27_RegistryMatchesServers ==
    /\ C27_RoutableIffDeclared
    /\ C27_DisabledContributeNothing
    /\ Range(get_available_tools(Self)) \subseteq DOMAIN tool_registry

(***************************************************************************)
(* C28: the conversation given to the language model, after the system     *)
(* prompt, is the most recent ContextSize messages of the session, each    *)
(* once and in order, the current user input being the last; and building  *)
(* it leaves the stored messages as they were.                             *)
(***************************************************************************)
C28_ContextIsLastMessages ==
    (last.op \in {"text_input", "audio"} /\ last.llm /\ last.context # << >>) =>
       LET given == Tail(last.context)
           recent == LastMessages(last.stored)
       IN  /\ Len(given) = Len(recent)
           /\ \A i \in DOMAIN given : given[i].content = recent[i].content
           /\ given[Len(given)].content = last.text

(***************************************************************************)
(* C29: an approve or deny request for a pending call made by a user other *)
(* than the one whose turn created the call runs no tool and leaves the    *)
(* call pending.                                                           *)
(***************************************************************************)
CreatedBy(call_id, user_id) ==
    \E tool_name \in CallTools, clock \in 0 .. MaxClock :
       call_id = make_call_id(user_id, tool_name, clock)

C29_OnlyCreatorResolves ==
    (/\ last.op \in {"approve", "deny"}
     /\ last.was_pending
     /\ ~CreatedBy(last.call_id, last.user))
       => /\ last.call_id \in DOMAIN pending_approvals
          /\ last.op = "approve" => last.runs = << >>

(***************************************************************************)
(* C30: registering a further server never lifts the approval requirement  *)
(* of a tool: a tool routed to an always_ask server before a registration  *)
(* is afterwards still routed to an always_ask server, or not routed.      *)
(***************************************************************************)
C30_Step ==
    \A t \in DOMAIN tool_registry :
       (/\ last'.op = "add_custom_server"
        /\ last'.name # tool_registry[t]
        /\ ResolvedMode(Self, t) = "always_ask")
          => ResolvedMode(Handler(servers', pending_approvals', tool_registry'), t)
                \in {"always_ask", "unregistered"}

C30_RegistrationKeepsApproval == [][C30_Step]_vars

====
